---- MODULE Spec2Model ----
\* Model of CPanelWordPressDeployer.deploy_wordpress and
\* deploy_wordpress_with_elementor (src/cpanel-wordpress-deployer.py).
\* Every remote step returns "ok" (a mapping whose status is truthy), "fail"
\* (a mapping whose status is falsy or missing, including the synthetic
\* {"status": 0, ...} results of the transport handler and of the upload
\* helpers), "bad" (response.json() decoded to a non-mapping such as
\* null or a list, on which .get raises AttributeError), "deep" (a valid
\* JSON body nested past the decoder's recursion limit: response.json()
\* raises RecursionError) or "bigint" (a valid JSON body holding an integer
\* of more than 4300 digits: response.json() raises ValueError). Neither of
\* the last two is a RequestException, so the step executor raises before
\* its result is stored.
EXTENDS Integers, Sequences, FiniteSets, TLC

\* ---- bounds ----
MaxPlugins == 2

\* ---- inputs ----
Domains == {"example.com", "site.org"}
Path == "/home/u/public_html"
Themes == {"None", "astra"}
PluginNames == {"a", "b"}
PluginLists == UNION {[1..n -> PluginNames] : n \in 0..MaxPlugins}

Outcomes == {"ok", "fail", "bad", "deep", "bigint"}

MandatoryFields == <<"database_creation", "database_user_creation",
                     "user_privileges", "wordpress_download",
                     "wp_config_creation", "permissions", "installation">>
BaseFields == {MandatoryFields[i] : i \in 1..7} \cup
              {"theme_installation", "plugin_installation"}
ElementorFields == {"elementor_installation", "elementor_pro_upload",
                    "elementor_pro_installation", "kit_upload", "kit_import"}
Fields == BaseFields \cup ElementorFields

VARIABLES
  mode,        \* "base": deploy_wordpress called; "elem": deploy_wordpress_with_elementor
  domain, theme, plugins,             \* deploy_wordpress arguments
  proKey, proPath, kitUrl, kitLocal,  \* truthiness of the Elementor arguments
  report,      \* results dict: field -> "absent" | "null" | outcome
  success,     \* results["success"] (truthiness)
  adminUrl,    \* results["admin_url"]
  calls,       \* step executors invoked, in order: [step, cmd]
  pc,          \* position in the orchestrator
  unitIn,      \* arguments of one direct call of a step executor
  unitOut      \* its result

vars == <<mode, domain, theme, plugins, proKey, proPath, kitUrl, kitLocal,
          report, success, adminUrl, calls, pc, unitIn, unitOut>>

\* ---- helpers translated from the code ----

\* r.get("status", 0) as a Python truth value: "T", "F", or "E" (raises)
StatusOf(r) == CASE r = "ok" -> "T"
                 [] r = "fail" -> "F"
                 [] OTHER -> "E"

\* Python `a and b` on already evaluated truth values
PyAnd(a, b) == IF a = "T" THEN b ELSE a

\* mutant: plain-http admin url
AdminUrlHttp(d) == "http://" \o d \o "/wp-admin/"

\* f"https://{domain}/wp-admin/"
AdminUrl(d) == "https://" \o d \o "/wp-admin/"

\* f"cd {path} && wp theme install {install_theme} --activate", split at " && "
ThemeCommand(p, t) == <<"cd " \o p, "wp theme install " \o t \o " --activate">>

\* mutant: the last plugin dropped from the chain
PluginCommandDropLast(p, ps) ==
  <<"cd " \o p>> \o [i \in 1..(Len(ps) - 1) |-> "wp plugin install " \o ps[i] \o " --activate"]

\* f"cd {path} && {plugin_commands}", split at " && "
PluginCommand(p, ps) ==
  <<"cd " \o p>> \o [i \in 1..Len(ps) |-> "wp plugin install " \o ps[i] \o " --activate"]

\* import_elementor_kit: kit_url wins over kit_file
ImportSource(u, f) == IF u THEN "url" ELSE IF f THEN "file" ELSE "none"

\* mutant: theme and plugin results included in the aggregate
BaseSuccessValueWithOptional(rep) ==
  LET opt == {f \in {"theme_installation", "plugin_installation"} : rep[f] /= "null"}
  IN IF \A i \in 1..7 : StatusOf(rep[MandatoryFields[i]]) = "T"
       THEN (IF \A f \in opt : StatusOf(rep[f]) = "T" THEN "T" ELSE "F")
       ELSE "F"

\* all(r.get("status", 0) for r in the seven mandatory results)
BaseSuccessValue(rep) ==
  LET RECURSIVE Go(_)
      Go(i) == IF i > 7 THEN "T"
               ELSE LET s == StatusOf(rep[MandatoryFields[i]])
                    IN IF s = "T" THEN Go(i + 1) ELSE s
  IN Go(1)

\* mutant: kit upload status left out of kit_success
ElementorSuccessValueNoUpload(rep, pk, pp, ku, kl) ==
  LET e0 == StatusOf(rep["elementor_installation"])
      pro == PyAnd(StatusOf(rep["elementor_pro_upload"]),
                   StatusOf(rep["elementor_pro_installation"]))
      e1 == IF pk /\ pp THEN (IF pro = "E" THEN "E" ELSE PyAnd(e0, pro)) ELSE e0
      kit == StatusOf(rep["kit_import"])
      e2 == IF ku \/ kl THEN (IF kit = "E" THEN "E" ELSE PyAnd(e1, kit)) ELSE e1
  IN IF e0 = "E" THEN "E" ELSE e2

\* lines 600-619: elementor_success as a truth value, "E" if a .get raises
ElementorSuccessValue(rep, pk, pp, ku, kl) ==
  LET e0 == StatusOf(rep["elementor_installation"])
      pro == PyAnd(StatusOf(rep["elementor_pro_upload"]),
                   StatusOf(rep["elementor_pro_installation"]))
      e1 == IF pk /\ pp THEN (IF pro = "E" THEN "E" ELSE PyAnd(e0, pro)) ELSE e0
      kit == IF kl THEN PyAnd(StatusOf(rep["kit_upload"]), StatusOf(rep["kit_import"]))
             ELSE StatusOf(rep["kit_import"])
      e2 == IF ku \/ kl THEN (IF kit = "E" THEN "E" ELSE PyAnd(e1, kit)) ELSE e1
  IN IF e0 = "E" THEN "E" ELSE e2

Call(step, cmd) == calls' = Append(calls, [step |-> step, cmd |-> cmd])

\* outcomes on which make_api_request itself raises
Escapes(r) == r \in {"deep", "bigint"}

\* where the run ends when make_api_request raises
EscapePc(r) == IF r = "deep" THEN "raised_recursion" ELSE "raised_value"

\* results[f] = <step executor>(...): nothing is stored when it raises
Store(f, r) == report' = IF Escapes(r) THEN report ELSE [report EXCEPT ![f] = r]

\* ---- make_api_request and the step executors, called directly ----

\* __init__ default port
DefaultPort == 2083

\* self.base_url = f"https://{hostname}:{port}/execute/"
BaseUrl(host) == "https://" \o host \o ":" \o ToString(DefaultPort) \o "/execute/"

Modules == {"Mysql", "Execute", "Fileman"}

\* what requests.post / raise_for_status / response.json() do for one call
\* (no timeout is passed to requests.post, so a server that accepts the
\* connection and never answers blocks the call: "no_answer"; "deep_json" is
\* an HTTP 200 whose valid JSON body nests past the decoder's recursion limit;
\* "big_int" an HTTP 200 whose valid JSON body holds a >4300-digit integer)
ApiEvents == {"ok_dict", "ok_nondict", "conn_error", "ssl_error", "peer_closed",
              "no_answer", "http_404", "http_500", "bad_json", "deep_json", "big_int"}

\* the exception each failing event raises (requests >= 2.27)
ExceptionOf(ev) ==
  CASE ev = "conn_error" -> "ConnectionError"
    [] ev = "ssl_error" -> "SSLError"
    [] ev = "peer_closed" -> "ConnectionError"
    [] ev \in {"http_404", "http_500"} -> "HTTPError"
    [] ev = "bad_json" -> "JSONDecodeError"
    [] ev = "deep_json" -> "RecursionError"
    [] ev = "big_int" -> "ValueError"
    [] OTHER -> "none"

\* requests.exceptions class hierarchy
ParentOf(cls) ==
  CASE cls = "SSLError" -> "ConnectionError"
    [] cls = "ReadTimeout" -> "Timeout"
    [] cls = "JSONDecodeError" -> "InvalidJSONError"
    [] cls \in {"ConnectionError", "Timeout", "HTTPError", "InvalidJSONError"} -> "RequestException"
    [] cls = "RecursionError" -> "RuntimeError"
    [] OTHER -> "Exception"

RECURSIVE IsSubclass(_, _)
IsSubclass(cls, base) ==
  IF cls = base THEN TRUE
  ELSE IF cls \in {"Exception", "none"} THEN FALSE
  ELSE IsSubclass(ParentOf(cls), base)

\* CPython _ssl.c line named in the certificate error, per Python build
\* (3.7.16, 3.8.18, 3.9.18, 3.10.13, 3.11.2, 3.11.7, 3.12.1, 3.13.0, 3.13.13)
SslSourceLines == {"1091", "1131", "1129", "1007", "992", "1006", "1000", "1020", "1032"}

\* the non-JSON body of a "bad_json" response
BadJsonBody == "<html>not json</html>"

\* str(e) for each failing event, as the set of texts the dependency stacks
\* produce (Python 3.7 to 3.13, requests 2.27 or later, urllib3 1.x or 2.x;
\* requests 2.27.x formats JSONDecodeError differently); mf is "{module}/{function}"
\* (the object address in the urllib3 1.x repr varies from run to run)
Describe(ev, host, mf) ==
  LET pool == "HTTPSConnectionPool(host='" \o host \o "', port=" \o ToString(DefaultPort)
              \o "): Max retries exceeded with url: /execute/" \o mf
      url == BaseUrl(host) \o mf
  IN CASE ev = "conn_error" ->
            { pool \o " (Caused by NewConnectionError('<urllib3.connection.HTTPSConnection object at 0x7f0000000000>: Failed to establish a new connection: [Errno 111] Connection refused'))",
              pool \o " (Caused by NewConnectionError(\"HTTPSConnection(host='" \o host \o "', port=" \o ToString(DefaultPort) \o "): Failed to establish a new connection: [Errno 111] Connection refused\"))" }
       [] ev = "ssl_error" ->
            { pool \o " (Caused by SSLError(SSLCertVerificationError(1, '[SSL: CERTIFICATE_VERIFY_FAILED] certificate verify failed: self-signed certificate (_ssl.c:" \o n \o ")')))" : n \in SslSourceLines }
       [] ev = "peer_closed" ->
            {"('Connection aborted.', RemoteDisconnected('Remote end closed connection without response'))"}
       [] ev = "http_404" -> {"404 Client Error: Not Found for url: " \o url}
       [] ev = "http_500" -> {"500 Server Error: Internal Server Error for url: " \o url}
       [] ev = "bad_json" -> {"Expecting value: line 1 column 1 (char 0)",
                              "[Errno Expecting value] " \o BadJsonBody \o ": 0"}
       [] OTHER -> {""}

NoUnitOut == [kind |-> "none", status |-> 0, errors |-> <<>>, data |-> "absent", calls |-> 0]

\* mutant: only connection errors and timeouts handled
CaughtNarrow(cls) == IsSubclass(cls, "ConnectionError") \/ IsSubclass(cls, "Timeout")

\* except requests.exceptions.RequestException
Caught(cls) == IsSubclass(cls, "RequestException")

\* make_api_request(module, function, params) for one transport event: its
\* possible results (kind "raised": an exception escapes the except clause)
MakeApiRequest(ev, host, mf) ==
  IF ev = "no_answer"
    THEN {[kind |-> "blocked", status |-> 0, errors |-> <<>>, data |-> "absent", calls |-> 1]}
  ELSE IF ev = "ok_dict"
    THEN {[kind |-> "dict", status |-> 1, errors |-> <<>>, data |-> "payload", calls |-> 1]}
  ELSE IF ev = "ok_nondict"
    THEN {[kind |-> "nondict", status |-> 0, errors |-> <<>>, data |-> "absent", calls |-> 1]}
  ELSE IF Caught(ExceptionOf(ev))
    THEN {[kind |-> "dict", status |-> 0, errors |-> <<d>>, data |-> "null", calls |-> 1] :
            d \in Describe(ev, host, mf)}
  ELSE {[kind |-> "raised", status |-> 0, errors |-> <<>>, data |-> "absent", calls |-> 1]}

\* a locally built {"status": 0, "errors": [msg]}
Synthetic(msg) == [kind |-> "dict", status |-> 0, errors |-> <<msg>>, data |-> "absent", calls |-> 0]

\* mutant: the zip path check left out
InstallElementorProResultsNoZipCheck(host, key, zip) ==
  IF key = "" THEN {Synthetic("No Elementor Pro license key provided")}
  ELSE UNION {MakeApiRequest(ev, host, "Execute/exec") : ev \in ApiEvents}

\* install_elementor_pro(path, license_key, pro_zip_path): possible results
InstallElementorProResults(host, key, zip) ==
  IF key = "" THEN {Synthetic("No Elementor Pro license key provided")}
  ELSE IF zip = "" THEN {Synthetic("No Elementor Pro zip file path provided")}
  ELSE UNION {MakeApiRequest(ev, host, "Execute/exec") : ev \in ApiEvents}

\* import_elementor_kit(path, kit_url, kit_file): possible results
ImportElementorKitResults(host, url, file) ==
  IF url = "" /\ file = "" THEN {Synthetic("No kit URL or file provided")}
  ELSE UNION {MakeApiRequest(ev, host, "Execute/exec") : ev \in ApiEvents}

UnitInputs ==
  [fn : {"api"}, host : Domains, module : Modules, event : ApiEvents,
   key : {""}, zip : {""}, url : {""}, file : {""}]
  \cup [fn : {"pro"}, host : Domains, module : {"Execute"}, event : {"ok_dict"},
        key : {"", "LICENSE"}, zip : {"", "/wp-content/uploads/elementor-pro.zip"},
        url : {""}, file : {""}]
  \cup [fn : {"kit"}, host : Domains, module : {"Execute"}, event : {"ok_dict"},
        key : {""}, zip : {""}, url : {"", "https://kits.example/kit.zip"},
        file : {"", "/wp-content/uploads/elementor-kit.zip"}]

NoUnitIn == [fn |-> "none", host |-> "", module |-> "", event |-> "",
             key |-> "", zip |-> "", url |-> "", file |-> ""]

Deploy == <<mode, domain, theme, plugins, proKey, proPath, kitUrl, kitLocal,
            report, success, adminUrl, calls, pc>>

UnitInit ==
  /\ mode = "base" /\ domain = "example.com" /\ theme = "None" /\ plugins = <<>>
  /\ proKey = FALSE /\ proPath = FALSE /\ kitUrl = FALSE /\ kitLocal = FALSE
  /\ report = [f \in Fields |-> "absent"] /\ success = FALSE /\ adminUrl = ""
  /\ calls = <<>> /\ pc = "start"
  /\ unitIn \in UnitInputs
  /\ unitOut = NoUnitOut

\* lines 65-92
ApiCall ==
  /\ unitIn.fn = "api" /\ unitOut = NoUnitOut
  /\ unitOut' \in MakeApiRequest(unitIn.event, unitIn.host, unitIn.module \o "/exec")
  /\ UNCHANGED <<Deploy, unitIn>>

\* lines 287-315
ProCall ==
  /\ unitIn.fn = "pro" /\ unitOut = NoUnitOut
  /\ unitOut' \in InstallElementorProResults(unitIn.host, unitIn.key, unitIn.zip)
  /\ UNCHANGED <<Deploy, unitIn>>

\* lines 317-346
KitCall ==
  /\ unitIn.fn = "kit" /\ unitOut = NoUnitOut
  /\ unitOut' \in ImportElementorKitResults(unitIn.host, unitIn.url, unitIn.file)
  /\ UNCHANGED <<Deploy, unitIn>>

UnitNext == ApiCall \/ ProCall \/ KitCall

SpecUnit == UnitInit /\ [][UnitNext]_vars

\* ---- state machine ----

Init ==
  /\ mode \in {"base", "elem"}
  /\ domain \in Domains
  /\ plugins \in PluginLists
  /\ theme \in (IF mode = "base" THEN Themes ELSE {"None"})
  /\ proKey \in (IF mode = "base" THEN {FALSE} ELSE BOOLEAN)
  /\ proPath \in (IF mode = "base" THEN {FALSE} ELSE BOOLEAN)
  /\ kitUrl \in (IF mode = "base" THEN {FALSE} ELSE BOOLEAN)
  /\ kitLocal \in (IF mode = "base" THEN {FALSE} ELSE BOOLEAN)
  /\ report = [f \in Fields |-> "absent"]
  /\ success = FALSE
  /\ adminUrl = ""
  /\ calls = <<>>
  /\ pc = "start"
  /\ unitIn = NoUnitIn
  /\ unitOut = NoUnitOut

\* arguments (and the untouched direct-call state)
Inputs == <<mode, domain, theme, plugins, proKey, proPath, kitUrl, kitLocal,
            unitIn, unitOut>>

\* lines 431-443: the results dict
DeployStart ==
  /\ pc = "start"
  /\ report' = [f \in Fields |-> IF f \in BaseFields THEN "null" ELSE "absent"]
  /\ success' = FALSE
  /\ adminUrl' = AdminUrl(domain)
  /\ pc' = MandatoryFields[1]
  /\ UNCHANGED <<Inputs, calls>>

\* where deploy_wordpress returns to: the caller (base) or line 556 (elem)
ReturnFromBase == IF mode = "base" THEN "done" ELSE "elem_check"

\* mutant: no early return after a failed mandatory step
MandatoryStepNoAbort(i) ==
  /\ pc = MandatoryFields[i]
  /\ \E r \in Outcomes :
       /\ report' = [report EXCEPT ![MandatoryFields[i]] = r]
       /\ Call(MandatoryFields[i], <<>>)
       /\ pc' = CASE StatusOf(r) = "E" -> "raised"
                  [] OTHER -> IF i < 7 THEN MandatoryFields[i + 1] ELSE "theme"
  /\ UNCHANGED <<Inputs, success, adminUrl>>

\* one mandatory step and its early return (lines 446-487)
MandatoryStep(i) ==
  /\ pc = MandatoryFields[i]
  /\ \E r \in Outcomes :
       /\ Store(MandatoryFields[i], r)
       /\ Call(MandatoryFields[i], <<>>)
       /\ pc' = CASE Escapes(r) -> EscapePc(r)
                  [] StatusOf(r) = "E" -> "raised"
                  [] StatusOf(r) = "F" -> ReturnFromBase
                  [] OTHER -> IF i < 7 THEN MandatoryFields[i + 1] ELSE "theme"
  /\ UNCHANGED <<Inputs, success, adminUrl>>

CreateDatabase == MandatoryStep(1)
CreateDbUser == MandatoryStep(2)
AssignUserToDb == MandatoryStep(3)
DownloadWordpress == MandatoryStep(4)
CreateWpConfig == MandatoryStep(5)
SetFilePermissions == MandatoryStep(6)
RunWpInstallation == MandatoryStep(7)

\* lines 489-494
ThemeStep ==
  /\ pc = "theme"
  /\ IF theme /= "None" /\ StatusOf(report["installation"]) = "T"
       THEN \E r \in Outcomes :
              /\ Store("theme_installation", r)
              /\ Call("theme_installation", ThemeCommand(Path, theme))
              /\ pc' = IF Escapes(r) THEN EscapePc(r) ELSE "plugins"
       ELSE /\ UNCHANGED <<report, calls>>
            /\ pc' = "plugins"
  /\ UNCHANGED <<Inputs, success, adminUrl>>

\* mutant: `install_plugins is not None` instead of truthiness
PluginStepNotNone ==
  /\ pc = "plugins"
  /\ IF StatusOf(report["installation"]) = "T"
       THEN \E r \in Outcomes :
              /\ report' = [report EXCEPT !["plugin_installation"] = r]
              /\ Call("plugin_installation", PluginCommand(Path, plugins))
       ELSE UNCHANGED <<report, calls>>
  /\ pc' = "base_success"
  /\ UNCHANGED <<Inputs, success, adminUrl>>

\* mutant: returns from deploy_wordpress after a failed plugin install
PluginStepHalt ==
  /\ pc = "plugins"
  /\ IF Len(plugins) > 0 /\ StatusOf(report["installation"]) = "T"
       THEN \E r \in {"ok", "fail"} :
              /\ Store("plugin_installation", r)
              /\ Call("plugin_installation", PluginCommand(Path, plugins))
              /\ pc' = IF r = "fail" THEN "done" ELSE "base_success"
       ELSE /\ UNCHANGED <<report, calls>>
            /\ pc' = "base_success"
  /\ UNCHANGED <<Inputs, success, adminUrl>>

\* lines 496-504
PluginStep ==
  /\ pc = "plugins"
  /\ IF Len(plugins) > 0 /\ StatusOf(report["installation"]) = "T"
       THEN \E r \in Outcomes :
              /\ Store("plugin_installation", r)
              /\ Call("plugin_installation", PluginCommand(Path, plugins))
              /\ pc' = IF Escapes(r) THEN EscapePc(r) ELSE "base_success"
       ELSE /\ UNCHANGED <<report, calls>>
            /\ pc' = "base_success"
  /\ UNCHANGED <<Inputs, success, adminUrl>>

\* lines 506-517
BaseSuccessStep ==
  /\ pc = "base_success"
  /\ success' = (BaseSuccessValue(report) = "T")
  /\ pc' = ReturnFromBase
  /\ UNCHANGED <<Inputs, report, adminUrl, calls>>

\* mutant: no early return on a failed base deployment
ElementorCheckNoReturn ==
  /\ pc = "elem_check"
  /\ report' = [f \in Fields |-> IF f \in ElementorFields THEN "null" ELSE report[f]]
  /\ pc' = "elementor"
  /\ UNCHANGED <<Inputs, success, adminUrl, calls>>

\* lines 555-566
ElementorCheck ==
  /\ pc = "elem_check"
  /\ IF success
       THEN /\ report' = [f \in Fields |-> IF f \in ElementorFields THEN "null" ELSE report[f]]
            /\ pc' = "elementor"
       ELSE /\ pc' = "done"
            /\ UNCHANGED report
  /\ UNCHANGED <<Inputs, success, adminUrl, calls>>

\* line 569
InstallElementor ==
  /\ pc = "elementor"
  /\ \E r \in Outcomes :
       /\ Store("elementor_installation", r)
       /\ Call("elementor_installation", <<>>)
       /\ pc' = IF Escapes(r) THEN EscapePc(r) ELSE "pro"
  /\ UNCHANGED <<Inputs, success, adminUrl>>

\* mutant: Pro install attempted whatever the upload result
ElementorProStepNoCheck ==
  /\ pc = "pro"
  /\ IF proKey /\ proPath
       THEN \E r1, r2 \in {"ok", "fail"} :
              /\ report' = [report EXCEPT !["elementor_pro_upload"] = r1,
                                          !["elementor_pro_installation"] = r2]
              /\ calls' = calls \o <<[step |-> "elementor_pro_upload", cmd |-> <<>>],
                                     [step |-> "elementor_pro_installation", cmd |-> <<>>]>>
       ELSE UNCHANGED <<report, calls>>
  /\ pc' = "kit_upload"
  /\ UNCHANGED <<Inputs, success, adminUrl>>

\* mutant: a failed Pro upload skips the rest of the Elementor steps
ElementorProStepHalt ==
  /\ pc = "pro"
  /\ IF proKey /\ proPath
       THEN \E r1 \in {"ok", "fail"} :
              /\ report' = [report EXCEPT !["elementor_pro_upload"] = r1]
              /\ Call("elementor_pro_upload", <<>>)
              /\ pc' = IF r1 = "ok" THEN "kit_upload" ELSE "elem_success"
       ELSE /\ UNCHANGED <<report, calls>>
            /\ pc' = "kit_upload"
  /\ UNCHANGED <<Inputs, success, adminUrl>>

\* lines 572-582
ElementorProStep ==
  /\ pc = "pro"
  /\ IF proKey /\ proPath
       THEN \E r1 \in Outcomes :
              CASE Escapes(r1) ->
                     /\ UNCHANGED report
                     /\ Call("elementor_pro_upload", <<>>)
                     /\ pc' = EscapePc(r1)
                [] StatusOf(r1) = "E" ->
                     /\ report' = [report EXCEPT !["elementor_pro_upload"] = r1]
                     /\ Call("elementor_pro_upload", <<>>)
                     /\ pc' = "raised"
                [] StatusOf(r1) = "T" ->
                     \E r2 \in Outcomes :
                       /\ report' = IF Escapes(r2)
                                       THEN [report EXCEPT !["elementor_pro_upload"] = r1]
                                       ELSE [report EXCEPT !["elementor_pro_upload"] = r1,
                                                           !["elementor_pro_installation"] = r2]
                       /\ calls' = calls \o <<[step |-> "elementor_pro_upload", cmd |-> <<>>],
                                              [step |-> "elementor_pro_installation", cmd |-> <<>>]>>
                       /\ pc' = IF Escapes(r2) THEN EscapePc(r2) ELSE "kit_upload"
                [] OTHER ->
                     /\ report' = [report EXCEPT !["elementor_pro_upload"] = r1]
                     /\ Call("elementor_pro_upload", <<>>)
                     /\ pc' = "kit_upload"
       ELSE /\ UNCHANGED <<report, calls>>
            /\ pc' = "kit_upload"
  /\ UNCHANGED <<Inputs, success, adminUrl>>

\* mutant: upload attempted for any kit source
KitUploadStepAnySource ==
  /\ pc = "kit_upload"
  /\ IF kitLocal \/ kitUrl
       THEN \E r \in Outcomes :
              /\ report' = [report EXCEPT !["kit_upload"] = r]
              /\ Call("kit_upload", <<>>)
       ELSE UNCHANGED <<report, calls>>
  /\ pc' = "kit_import"
  /\ UNCHANGED <<Inputs, success, adminUrl>>

\* lines 585-589
KitUploadStep ==
  /\ pc = "kit_upload"
  /\ IF kitLocal
       THEN \E r \in Outcomes :
              /\ Store("kit_upload", r)
              /\ Call("kit_upload", <<>>)
              /\ pc' = IF Escapes(r) THEN EscapePc(r) ELSE "kit_import"
       ELSE /\ UNCHANGED <<report, calls>>
            /\ pc' = "kit_import"
  /\ UNCHANGED <<Inputs, success, adminUrl>>

\* mutant: import attempted without checking the free install
KitImportStepNoCheck ==
  /\ pc = "kit_import"
  /\ IF kitUrl \/ kitLocal
       THEN \E r \in {"ok", "fail"} :
              /\ report' = [report EXCEPT !["kit_import"] = r]
              /\ Call("kit_import", <<ImportSource(kitUrl, kitLocal)>>)
       ELSE UNCHANGED <<report, calls>>
  /\ pc' = "elem_success"
  /\ UNCHANGED <<Inputs, success, adminUrl>>

\* lines 592-597
KitImportStep ==
  /\ pc = "kit_import"
  /\ IF kitUrl \/ kitLocal
       THEN CASE StatusOf(report["elementor_installation"]) = "E" ->
                   /\ pc' = "raised"
                   /\ UNCHANGED <<report, calls>>
              [] StatusOf(report["elementor_installation"]) = "T" ->
                   \E r \in Outcomes :
                     /\ Store("kit_import", r)
                     /\ Call("kit_import", <<ImportSource(kitUrl, kitLocal)>>)
                     /\ pc' = IF Escapes(r) THEN EscapePc(r) ELSE "elem_success"
              [] OTHER ->
                   /\ pc' = "elem_success"
                   /\ UNCHANGED <<report, calls>>
       ELSE /\ pc' = "elem_success"
            /\ UNCHANGED <<report, calls>>
  /\ UNCHANGED <<Inputs, success, adminUrl>>

\* lines 599-624
ElementorSuccessStep ==
  /\ pc = "elem_success"
  /\ LET e == ElementorSuccessValue(report, proKey, proPath, kitUrl, kitLocal)
     IN IF e = "E"
          THEN /\ pc' = "raised"
               /\ UNCHANGED success
          ELSE /\ success' = (success /\ e = "T")
               /\ pc' = "done"
  /\ UNCHANGED <<Inputs, report, adminUrl, calls>>

Next ==
  \/ DeployStart
  \/ CreateDatabase
  \/ CreateDbUser
  \/ AssignUserToDb
  \/ DownloadWordpress
  \/ CreateWpConfig
  \/ SetFilePermissions
  \/ RunWpInstallation
  \/ ThemeStep
  \/ PluginStep
  \/ BaseSuccessStep
  \/ ElementorCheck
  \/ InstallElementor
  \/ ElementorProStep
  \/ KitUploadStep
  \/ KitImportStep
  \/ ElementorSuccessStep

Spec == Init /\ [][Next]_vars

\* ---- properties ----

BaseAllOk == \A i \in 1..7 : report[MandatoryFields[i]] = "ok"
StepCalled(f) == \E k \in 1..Len(calls) : calls[k].step = f

\* C1: once a mandatory step returns a falsy status, no later step (mandatory,
\* theme, plugin or Elementor) has been invoked, every later field is still
\* null or absent, and the returned report has success = false.
C1_AbortOnMandatoryFailure ==
  \A i \in 1..7 :
    report[MandatoryFields[i]] = "fail" =>
      /\ Len(calls) = i
      /\ \A j \in (i + 1)..7 : report[MandatoryFields[j]] = "null"
      /\ report["theme_installation"] = "null"
      /\ report["plugin_installation"] = "null"
      /\ \A f \in ElementorFields : report[f] = "absent"
      /\ (pc = "done" => ~success)

C1_Witness ==
  /\ mode = "elem" /\ pc = "done"
  /\ report["wp_config_creation"] = "fail"

\* C2: when deploy_wordpress returns, success is the AND of the seven
\* mandatory statuses; theme and plugin results do not affect it.
C2_BaseSuccessIsMandatoryAnd ==
  ((mode = "base" /\ pc = "done") \/ pc = "elem_check") =>
    (success <=> BaseAllOk)

C2_Witness ==
  /\ mode = "base" /\ pc = "done" /\ success
  /\ report["theme_installation"] = "fail"
  /\ report["plugin_installation"] = "fail"

NoOptionalInputs ==
  /\ theme = "None" /\ Len(plugins) = 0
  /\ ~proKey /\ ~proPath /\ ~kitUrl /\ ~kitLocal

\* C3: all mandatory steps succeed, no optional input (and the free Elementor
\* install succeeds in the extended pipeline): success is true and every
\* optional field is null.
C3_NoOptionalInputs ==
  (pc = "done" /\ BaseAllOk /\ NoOptionalInputs /\
   (mode = "elem" => report["elementor_installation"] = "ok")) =>
    /\ success
    /\ report["theme_installation"] = "null"
    /\ report["plugin_installation"] = "null"
    /\ mode = "elem" =>
         \A f \in {"elementor_pro_upload", "elementor_pro_installation",
                   "kit_upload", "kit_import"} : report[f] = "null"

C3_Witness ==
  /\ pc = "done" /\ mode = "elem" /\ success /\ NoOptionalInputs

\* C4: in deploy_wordpress_with_elementor a failed base deployment runs no
\* Elementor step and the base report comes back with success = false.
C4_NoElementorAfterBaseFailure ==
  (mode = "elem" /\ ~BaseAllOk /\ pc /= "start") =>
    /\ \A f \in ElementorFields : report[f] = "absent" /\ ~StepCalled(f)
    /\ (pc = "done" => ~success)

C4_Witness ==
  /\ mode = "elem" /\ pc = "done"
  /\ report["installation"] = "fail"
  /\ proKey /\ kitUrl

\* C5: after a successful base pipeline the extended success is base success
\* AND free install AND (Pro: upload AND install) AND (kit: upload if local
\* AND import).
C5_ExtendedSuccessAggregate ==
  (mode = "elem" /\ pc = "done" /\ BaseAllOk) =>
    (success <=>
       /\ report["elementor_installation"] = "ok"
       /\ (proKey /\ proPath) =>
            /\ report["elementor_pro_upload"] = "ok"
            /\ report["elementor_pro_installation"] = "ok"
       /\ (kitUrl \/ kitLocal) =>
            /\ kitLocal => report["kit_upload"] = "ok"
            /\ report["kit_import"] = "ok")

C5_Witness ==
  /\ mode = "elem" /\ pc = "done" /\ BaseAllOk
  /\ proKey /\ proPath /\ kitLocal
  /\ report["kit_upload"] = "fail"

\* C6: Pro key and package supplied and the upload fails: the Pro install
\* is never invoked, stays null, and success is false.
C6_NoProInstallAfterFailedUpload ==
  (mode = "elem" /\ proKey /\ proPath /\ report["elementor_pro_upload"] = "fail") =>
    /\ report["elementor_pro_installation"] = "null"
    /\ ~StepCalled("elementor_pro_installation")
    /\ (pc = "done" => ~success)

C6_Witness ==
  /\ pc = "done" /\ report["elementor_pro_upload"] = "fail"

\* C7: kit import is invoked only after a successful free install, and with
\* a kit source and a successful free install it is invoked whatever the
\* Pro results.
C7_KitImportGatedOnFreeInstall ==
  /\ StepCalled("kit_import") => report["elementor_installation"] = "ok"
  /\ (mode = "elem" /\ pc \in {"elem_success", "done"} /\ (kitUrl \/ kitLocal)
      /\ report["elementor_installation"] = "ok") => StepCalled("kit_import")

C7_Witness ==
  /\ pc = "done" /\ StepCalled("kit_import")
  /\ report["elementor_pro_upload"] = "fail"

\* C8: kit URL without a local kit file and a successful free install: the
\* import uses the URL and no upload step runs.
C8_KitUrlImportsDirectly ==
  (mode = "elem" /\ kitUrl /\ ~kitLocal /\ pc \in {"elem_success", "done"}
   /\ report["elementor_installation"] = "ok") =>
    /\ report["kit_upload"] = "null"
    /\ ~StepCalled("kit_upload")
    /\ \E k \in 1..Len(calls) : calls[k] = [step |-> "kit_import", cmd |-> <<"url">>]

C8_Witness ==
  /\ pc = "done" /\ kitUrl /\ ~kitLocal /\ StepCalled("kit_import")

\* C9: whatever the outcome, the returned report's admin_url is
\* https://{domain}/wp-admin/.
C9_AdminUrl ==
  pc \in {"done", "elem_check"} => adminUrl = "https://" \o domain \o "/wp-admin/"

C9_Witness ==
  /\ pc = "done" /\ mode = "elem" /\ report["database_creation"] = "fail"

\* C10: no theme and a non-empty plugin list: theme_installation stays null
\* and plugin_installation comes from one remote call that installs every
\* listed plugin.
C10_OneCombinedPluginCall ==
  (mode = "base" /\ pc = "done" /\ BaseAllOk /\ theme = "None" /\ Len(plugins) > 0) =>
    /\ report["theme_installation"] = "null"
    /\ report["plugin_installation"] \in Outcomes
    /\ Len(calls) = 8
    /\ calls[8].step = "plugin_installation"
    /\ \A p \in 1..Len(plugins) :
         \E k \in 1..Len(calls[8].cmd) :
           calls[8].cmd[k] = "wp plugin install " \o plugins[p] \o " --activate"

C10_Witness ==
  /\ mode = "base" /\ pc = "done" /\ theme = "None" /\ Len(plugins) = 2
  /\ plugins[1] /= plugins[2]
  /\ report["plugin_installation"] \in Outcomes

\* C11: the orchestrator never raises for any combination of step outcomes
\* and optional inputs, in particular when a kit source was supplied, the
\* free Elementor install failed and kit_import is still null when the
\* success aggregation reads it (stated over runs whose responses are all
\* mappings; a RecursionError escaping make_api_request ends in
\* "raised_recursion" or "raised_value", see C12).
C11_NeverRaises ==
  (\A f \in Fields : report[f] /= "bad") => pc /= "raised"

UnitDone == unitOut /= NoUnitOut

\* C12: make_api_request never raises; a transport failure (network error,
\* non-2xx response, malformed JSON) comes back as status 0, data None and
\* an errors list holding the exception's description.
C12_InvokerNeverRaises ==
  (unitIn.fn = "api" /\ UnitDone) =>
    /\ unitOut.kind /= "raised"
    /\ ExceptionOf(unitIn.event) /= "none" =>
         /\ unitOut.kind = "dict"
         /\ unitOut.status = 0
         /\ unitOut.data = "null"
         /\ Len(unitOut.errors) > 0
         /\ \E k \in 1..Len(unitOut.errors) :
              unitOut.errors[k] \in Describe(unitIn.event, unitIn.host, unitIn.module \o "/exec")

C12_Witness ==
  /\ unitIn.fn = "api" /\ UnitDone /\ unitIn.event = "http_500"
  /\ unitOut.status = 0

\* C13: a missing license key, a missing Pro package path, or neither kit URL
\* nor kit file gives a synthetic failed result (status 0, non-empty errors)
\* without any remote call.
C13_MissingInputNoRemoteCall ==
  (UnitDone /\ \/ unitIn.fn = "pro" /\ (unitIn.key = "" \/ unitIn.zip = "")
               \/ unitIn.fn = "kit" /\ unitIn.url = "" /\ unitIn.file = "") =>
    /\ unitOut.calls = 0
    /\ unitOut.kind = "dict"
    /\ unitOut.status = 0
    /\ Len(unitOut.errors) > 0

C13_Witness ==
  /\ UnitDone /\ unitIn.fn = "pro" /\ unitIn.key = "LICENSE" /\ unitIn.zip = ""

OptionalGating ==
  /\ StepCalled("theme_installation") => theme /= "None" /\ BaseAllOk
  /\ StepCalled("plugin_installation") => Len(plugins) > 0 /\ BaseAllOk
  /\ StepCalled("elementor_pro_upload") => proKey /\ proPath /\ BaseAllOk
  /\ StepCalled("kit_upload") => kitLocal /\ BaseAllOk
  /\ StepCalled("kit_import") => (kitUrl \/ kitLocal) /\ BaseAllOk

\* every optional step whose inputs were supplied (and whose guard in the code
\* holds) has been called once the pipeline is past it, whatever the earlier
\* optional steps returned
OptionalNoHalt ==
  /\ (pc \in {"base_success", "elem_check", "elementor", "pro", "kit_upload",
              "kit_import", "elem_success", "done"} /\ BaseAllOk) =>
        /\ theme /= "None" => StepCalled("theme_installation")
        /\ Len(plugins) > 0 => StepCalled("plugin_installation")
  /\ (mode = "elem" /\ pc \in {"elem_success", "done"} /\ BaseAllOk) =>
        /\ (proKey /\ proPath) => StepCalled("elementor_pro_upload")
        /\ report["elementor_pro_upload"] = "ok" => StepCalled("elementor_pro_installation")
        /\ kitLocal => StepCalled("kit_upload")
        /\ ((kitUrl \/ kitLocal) /\ report["elementor_installation"] = "ok") =>
             StepCalled("kit_import")

OptionalFields == {"theme_installation", "plugin_installation", "elementor_pro_upload",
                   "elementor_pro_installation", "kit_upload", "kit_import"}
ElementorOptionalFields == {"elementor_pro_upload", "elementor_pro_installation",
                            "kit_upload", "kit_import"}

\* C14 as stated: optional branches run only when their inputs were supplied
\* and the mandatory chain succeeded; a failed optional step does not halt
\* the pipeline, and any failed optional step makes the final success false.
C14_Original ==
  /\ OptionalGating
  /\ OptionalNoHalt
  /\ (pc = "done" /\ \E f \in OptionalFields : report[f] = "fail") => ~success

\* C14 amended: optional branches run only when their inputs were supplied
\* and the mandatory chain succeeded; a failed optional step does not halt
\* the pipeline; a failed Elementor Pro or kit step makes the final success
\* false, while a failed theme or plugin install leaves it unaffected.
C14_OptionalBranches ==
  /\ OptionalGating
  /\ OptionalNoHalt
  /\ (pc = "done" /\ \E f \in ElementorOptionalFields : report[f] = "fail") => ~success
  /\ (pc = "done" /\ BaseAllOk
      /\ (mode = "elem" =>
            /\ report["elementor_installation"] = "ok"
            /\ \A f \in ElementorOptionalFields : report[f] \in {"null", "ok"}
            /\ (proKey /\ proPath) => report["elementor_pro_installation"] = "ok"
            /\ (kitUrl \/ kitLocal) => report["kit_import"] = "ok")) => success

C14_Witness ==
  /\ pc = "done" /\ mode = "elem"
  /\ report["elementor_pro_upload"] = "fail"
  /\ report["plugin_installation"] = "fail"
  /\ StepCalled("kit_import")

====
